---------------------------- MODULE Spec2Model ----------------------------
(***************************************************************************)
(* Model of the SPBM power-telemetry hwmon driver (src/spbm.c).            *)
(*                                                                         *)
(* The driver binds to one ACPI device (spbm_add), locates the second      *)
(* memory resource of the device, maps SPBM_SIZE bytes of it, performs a   *)
(* sanity read of SYS_TOTAL and registers a hwmon device whose callbacks   *)
(* (spbm_visible, spbm_read) answer sensor queries by reading the mapped   *)
(* registers.  Everything the driver acquires is device-managed (devm),    *)
(* so release is done by the driver core from the devres list.             *)
(*                                                                         *)
(* Numbers wider than 31 bits (u32 register words, long results, size_t)   *)
(* are little-endian sequences of 16-bit limbs, so that truncation and     *)
(* wrap-around are computed, not assumed.                                  *)
(***************************************************************************)
EXTENDS Integers, Sequences, FiniteSets, TLC

VARIABLES
    state,        \* binding state of the device
    pc,           \* where the running spbm_add stands ("idle": not running)
    add,          \* live locals of the running spbm_add
    devres,       \* devres list of the device, in order of registration
    pending,      \* releases the running teardown still has to perform
    priv,         \* struct spbm_priv is allocated
    mapped,       \* p->base is a live mapping of the region
    base,         \* physical address behind p->base (0: none)
    hwmon,        \* the hwmon device is registered (callbacks can be called)
    resListLive,  \* the enumerated resource list is allocated
    last,         \* record of the latest step, until it is dropped
    probes,       \* probes started so far
    teardowns     \* teardown invocations so far

vars == <<state, pc, add, devres, pending, priv, mapped, base, hwmon,
          resListLive, last, probes, teardowns>>

-----------------------------------------------------------------------------
(* Bounds of the model *)

\* longest resource list the device declares
MaxRes == 3
\* physical base addresses are 0 .. MaxAddr
MaxAddr == 2
\* probes of the device in one run (the host may bind it again)
MaxProbes == 2
\* teardown invocations in one run
MaxTeardowns == 2
\* channel indices queried run from -ChSlack to table size + ChSlack
ChSlack == 2

-----------------------------------------------------------------------------
(* Fixed-width integers as sequences of 16-bit limbs, least significant    *)
(* limb first.                                                             *)

LimbBase == 2^16

\* limbs in a long and in a size_t of the target (LP64)
LongLimbs == 4

\* a C int (two's complement) converted to a w-limb integer: the value
\* modulo 2^(16w), which sign-extends a negative int
RECURSIVE FromInt(_, _)
FromInt(i, w) ==
    IF w = 0 THEN <<>> ELSE <<i % LimbBase>> \o FromInt(i \div LimbBase, w - 1)

\* zero extension (or truncation) of an unsigned value to w limbs
Extend(x, w) == [k \in 1..w |-> IF k <= Len(x) THEN x[k] ELSE 0]

\* x * k in w limbs, high part dropped (k < 2^15)
RECURSIVE MulCarry(_, _, _)
MulCarry(x, k, carry) ==
    IF x = <<>> THEN <<>>
    ELSE LET t == Head(x) * k + carry
         IN  <<t % LimbBase>> \o MulCarry(Tail(x), k, t \div LimbBase)

MulSmall(x, k) == MulCarry(x, k, 0)

\* unsigned comparison a < b of two values of the same width
RECURSIVE LessU(_, _)
LessU(a, b) ==
    IF a = <<>> THEN FALSE
    ELSE LET n == Len(a)
         IN  IF a[n] # b[n] THEN a[n] < b[n]
             ELSE LessU(SubSeq(a, 1, n - 1), SubSeq(b, 1, n - 1))

-----------------------------------------------------------------------------
(* Register layout and channel tables *)

SPBM_SIZE == \H1000
SPBM_RES_IDX == 1

TE_SYS_TOTAL == \H300
TE_SOC_PKG == \H304
TE_C_AND_G == \H308
TE_CPU_P == \H30C
TE_CPU_E == \H310
TE_VCORE == \H314
TE_VDDQ == \H318
TE_CHR == \H31C
TE_GPC_OUT == \H320
\* faulty variant: GPU_OUT given the offset of GPC_OUT
TE_GPU_OUT_Dup == TE_GPC_OUT
TE_GPU_OUT == \H324
TE_GPC_IN == \H328
TE_GPU_IN == \H32C
TE_SYS_IN == \H330
TE_DLA_IN == \H334
TE_PREREG_IN == \H338
TE_DLA_OUT == \H33C

EN_PKG == \H344
EN_CPU_E == \H350
EN_CPU_P == \H35C
EN_GPC == \H368
EN_GPM == \H374

PL1_EFF == \H160
PL2_EFF == \H164
SYSPL1_EFF == \H170

BUD_CPU == \H600
BUD_GPU == \H604
BUD_CPU_E == \H680
BUD_CPU_P == \H684

Chan(o, l) == [offset |-> o, label |-> l]

pwr_chans == <<
    Chan(TE_SYS_TOTAL, "sys_total"),
    Chan(TE_SOC_PKG,   "soc_pkg"),
    Chan(TE_C_AND_G,   "cpu_gpu"),
    Chan(TE_CPU_P,     "cpu_p"),
    Chan(TE_CPU_E,     "cpu_e"),
    Chan(TE_VCORE,     "vcore"),
    Chan(TE_VDDQ,      "vddq"),
    Chan(TE_CHR,       "dc_input"),
    Chan(TE_GPU_OUT,   "gpu_out"),
    Chan(TE_GPC_OUT,   "gpc_out"),
    Chan(TE_GPU_IN,    "gpu_in"),
    Chan(TE_GPC_IN,    "gpc_in"),
    Chan(TE_SYS_IN,    "sys_in"),
    Chan(TE_PREREG_IN, "prereg_in"),
    Chan(TE_DLA_IN,    "dla_in"),
    Chan(TE_DLA_OUT,   "dla_out"),
    Chan(PL1_EFF,      "pl1"),
    Chan(PL2_EFF,      "pl2"),
    Chan(SYSPL1_EFF,   "syspl1"),
    Chan(BUD_CPU,      "budget_cpu"),
    Chan(BUD_GPU,      "budget_gpu"),
    Chan(BUD_CPU_E,    "budget_cpu_e"),
    Chan(BUD_CPU_P,    "budget_cpu_p") >>

N_PWR == Len(pwr_chans)

nrg_chans == <<
    Chan(EN_PKG,   "pkg"),
    Chan(EN_CPU_E, "cpu_e"),
    Chan(EN_CPU_P, "cpu_p"),
    Chan(EN_GPC,   "gpc"),
    Chan(EN_GPM,   "gpm") >>

N_NRG == Len(nrg_chans)

\* the register offsets the firmware keeps up to date
Offsets ==
    {pwr_chans[i].offset : i \in 1..N_PWR} \cup
    {nrg_chans[i].offset : i \in 1..N_NRG}

\* tbl[ch] of the C array (0-based).  Indexing outside the array is
\* undefined behaviour; it never happens behind the range checks below and
\* is given an entry outside the region so that it cannot pass for a channel.
ChanAt(tbl, ch) ==
    IF ch >= 0 /\ ch < Len(tbl) THEN tbl[ch + 1] ELSE Chan(SPBM_SIZE, "")

-----------------------------------------------------------------------------
(* Register words *)

\* a u32 from its high and low halves
Word(hi, lo) == <<lo, hi>>

\* what a load returns when it does not reach a register
Fault == <<-1, -1>>

\* The registers are written by the firmware at any time, so a load returns
\* whatever word the firmware left there last: any of DeviceWords.
EdgeHalves == {0, 1, 65, 12345, 32767, 32768, 45000, 65535}
DeviceWords == {Word(hi, lo) : hi, lo \in EdgeHalves}

\* ioread32(p->base + off): the outcomes of the load.  The driver checks no
\* bounds: a load inside the live mapping returns the register's word, a
\* load past it, or with no mapping, faults or returns whatever lies there.
Ioread32(isMapped, off) ==
    IF isMapped /\ off >= 0 /\ off + 4 <= SPBM_SIZE
    THEN DeviceWords
    ELSE {Fault} \cup DeviceWords

-----------------------------------------------------------------------------
(* hwmon callbacks *)

HwmonTypes == {"hwmon_power", "hwmon_energy", "hwmon_temp"}

\* attributes the hwmon core knows for each sensor type (a selection)
HwmonAttrs(type) ==
    CASE type = "hwmon_power" ->
            {"hwmon_power_input", "hwmon_power_label", "hwmon_power_max"}
      [] type = "hwmon_energy" ->
            {"hwmon_energy_input", "hwmon_energy_label", "hwmon_energy_enable"}
      [] OTHER -> {"hwmon_temp_input"}

MODE_0444 == 292

\* ch < n, with int ch converted to size_t as ARRAY_SIZE is a size_t
\* faulty variant: the comparison done on signed int
InRangeSigned(ch, n) == ch < n
InRange(ch, n) == LessU(FromInt(ch, LongLimbs), FromInt(n, LongLimbs))

spbm_visible(type, attr, ch) ==
    IF type = "hwmon_power" /\ InRange(ch, N_PWR) /\
       (attr = "hwmon_power_input" \/ attr = "hwmon_power_label")
    THEN MODE_0444
    ELSE IF type = "hwmon_energy" /\ InRange(ch, N_NRG) /\
            (attr = "hwmon_energy_input" \/ attr = "hwmon_energy_label")
    THEN MODE_0444
    ELSE 0

\* (long)raw * 1000
\* faulty variant: the product taken in u32, without the cast
ToUnitsU32(raw) == Extend(MulSmall(raw, 1000), LongLimbs)
ToUnits(raw) == MulSmall(Extend(raw, LongLimbs), 1000)

\* the register spbm_read loads for an energy channel
\* faulty variant: the energy branch indexing the power table
EnergyOffsetFromPwr(ch) == ChanAt(pwr_chans, ch).offset
EnergyOffset(ch) == ChanAt(nrg_chans, ch).offset

\* spbm_read: the offset it loads, or -1 when it answers -EOPNOTSUPP
ReadOffset(type, attr, ch) ==
    IF type = "hwmon_power" /\ attr = "hwmon_power_input" /\ InRange(ch, N_PWR)
    THEN ChanAt(pwr_chans, ch).offset
    ELSE IF type = "hwmon_energy" /\ attr = "hwmon_energy_input" /\
            InRange(ch, N_NRG)
    THEN EnergyOffset(ch)
    ELSE -1

\* a comparison the code makes before a load: what it compares, and the
\* limit it compares with
Test(what, limit) == [what |-> what, limit |-> limit]

\* the comparisons spbm_read has made when it loads: the channel number with
\* the size of the table, nothing on the offset
ReadTests(type) ==
    IF type = "hwmon_power" THEN <<Test("ch", N_PWR)>>
    ELSE <<Test("ch", N_NRG)>>

\* the comparisons spbm_add has made when it loads in its sanity check
SanityTests == <<>>

\* spbm_read on the current registers, with raw the word the load returned
spbm_read(type, attr, ch, raw) ==
    LET off == ReadOffset(type, attr, ch)
    IN  IF off = -1
        THEN [ret |-> "-EOPNOTSUPP", reads |-> <<>>, tested |-> <<>>,
              raw |-> Fault, val |-> Fault]
        ELSE [ret |-> "0", reads |-> <<off>>, tested |-> ReadTests(type),
              raw |-> raw,
              val |-> IF raw = Fault THEN Fault ELSE ToUnits(raw)]


-----------------------------------------------------------------------------
(* Device-managed resources *)

\* each devm call registers its release on the devres list of the device
devm_kzalloc(dr) == Append(dr, "priv")

\* faulty variant: plain ioremap, nothing registered for release
ioremap_unmanaged(dr) == dr
devm_ioremap(dr) == Append(dr, "ioremap")

\* faulty variant: plain registration, nothing registered for release
hwmon_register_unmanaged(dr) == dr
devm_hwmon_device_register_with_info(dr) == Append(dr, "hwmon")

\* the driver core releases a devres list last-registered first
RECURSIVE ReleaseOrder(_)
ReleaseOrder(dr) ==
    IF dr = <<>> THEN <<>> ELSE ReleaseOrder(Tail(dr)) \o <<Head(dr)>>

\* releases the driver performs itself on detach: spbm_driver.ops has no
\* remove callback
\* faulty variant: a remove callback that unmaps by hand as well
RemoveUnmapsToo == <<"ioremap">>
RemoveCallback == <<>>

CountOf(seq, x) == Cardinality({i \in DOMAIN seq : seq[i] = x})

-----------------------------------------------------------------------------
(* Probe *)

ResourceTypes == {"IORESOURCE_MEM", "IORESOURCE_IO"}
Resources == [type : ResourceTypes, start : 0..MaxAddr]

RECURSIVE SeqsUpTo(_, _)
SeqsUpTo(S, n) ==
    IF n = 0 THEN {<<>>}
    ELSE LET shorter == SeqsUpTo(S, n - 1)
         IN  shorter \cup {Append(q, x) : q \in shorter, x \in S}

ResLists == SeqsUpTo(Resources, MaxRes)

\* what acpi_dev_get_resources answers: an error (ret < 0), which leaves no
\* list behind, or the list it built
GetResErrors == {"-EINVAL", "-EIO"}
GetResAnswers ==
    {[ret |-> e, list |-> <<>>] : e \in GetResErrors} \cup
    {[ret |-> "0", list |-> l] : l \in ResLists}
\* what devm_hwmon_device_register_with_info answers
RegErrors == {"-ENOMEM", "-EINVAL"}

\* the list_for_each_entry loop of spbm_add: phys when the loop ends
RECURSIVE LocateFrom(_, _)
LocateFrom(list, idx) ==
    IF list = <<>> THEN 0
    ELSE IF Head(list).type = "IORESOURCE_MEM"
         THEN IF idx = SPBM_RES_IDX THEN Head(list).start
              ELSE LocateFrom(Tail(list), idx + 1)
         ELSE LocateFrom(Tail(list), idx)

Locate(list) == LocateFrom(list, 0)

\* the sanity check's condition for the warning
\* faulty variant: only 0 counts as inactive
TelemetryInactiveZeroOnly(test) == test = Word(0, 0)
TelemetryInactive(test) == test = Word(0, 0) \/ test = Word(65535, 65535)

\* the three loads that are arguments of one dev_info call: C leaves the
\* order in which they are evaluated open
InfoArgs == {TE_SOC_PKG, TE_CPU_P, TE_GPU_OUT}
IsArgOrder(o) == \A i, j \in 1..3 : o[i] = o[j] => i = j
ArgOrders == {o \in InfoArgs \X InfoArgs \X InfoArgs : IsArgOrder(o)}

\* the locals of spbm_add that are live between its steps
Frame(list, phys, calls, log, ret, hwdev) ==
    [list |-> list, phys |-> phys, calls |-> calls, log |-> log,
     ret |-> ret, hwdev |-> hwdev]

NoFrame == Frame(<<>>, 0, <<>>, <<>>, "0", "none")

-----------------------------------------------------------------------------
(* Specification                                                           *)
(*                                                                         *)
(* spbm_add runs in steps, one for each call that can sleep or be          *)
(* overtaken; the hwmon device is live from the registration on, so the    *)
(* callbacks run before spbm_add has returned.  The releases of a teardown *)
(* are steps of their own as well.  Every step leaves its record in last;  *)
(* a callback runs when the record before it has been dropped (Return).    *)

ChRange == (0 - ChSlack) .. (N_PWR + ChSlack)
IntExtremes == {-2147483647, 2147483647}

Idle == [op |-> "none"]

Init ==
    /\ state = "Unbound"
    /\ pc = "idle"
    /\ add = NoFrame
    /\ devres = <<>>
    /\ pending = <<>>
    /\ priv = FALSE
    /\ mapped = FALSE
    /\ base = 0
    /\ hwmon = FALSE
    /\ resListLive = FALSE
    /\ last = Idle
    /\ probes = 0
    /\ teardowns = 0

\* The host binds the device, for the first time or again: spbm_add starts
\* and allocates its private data.
Attach ==
    /\ state \in {"Unbound", "Failed", "Unregistered"}
    /\ pc = "idle"
    /\ pending = <<>>
    /\ probes < MaxProbes
    /\ probes' = probes + 1
    /\ state' = "Probing"
    /\ \E allocOK \in BOOLEAN :
          /\ priv' = allocOK
          /\ devres' = IF allocOK THEN devm_kzalloc(devres) ELSE devres
          /\ pc' = IF allocOK THEN "getres" ELSE "failed"
          /\ add' = Frame(<<>>, 0, <<"devm_kzalloc">>, <<>>,
                          IF allocOK THEN "0" ELSE "-ENOMEM", "none")
          /\ last' = [op |-> "kzalloc", ok |-> allocOK]
    /\ UNCHANGED <<pending, mapped, base, hwmon, resListLive, teardowns>>

\* acpi_dev_get_resources answers.
AddGetResources ==
    /\ pc = "getres"
    /\ \E getres \in GetResAnswers :
          LET ok == getres.ret \notin GetResErrors
          IN  /\ resListLive' = ok
              /\ pc' = IF ok THEN "locate" ELSE "failed"
              /\ add' = Frame(getres.list, 0,
                              Append(add.calls, "acpi_dev_get_resources"),
                              <<>>, IF ok THEN "0" ELSE getres.ret, "none")
              /\ last' = [op |-> "getres", ret |-> getres.ret,
                          list |-> getres.list]
    /\ UNCHANGED <<state, devres, pending, priv, mapped, base, hwmon, probes,
                   teardowns>>

\* The loop over the list, the release of the list and the test of phys.
AddLocate ==
    /\ pc = "locate"
    /\ LET phys == Locate(add.list)
       IN  /\ pc' = IF phys = 0 THEN "failed" ELSE "ioremap"
           /\ add' = Frame(<<>>, phys,
                           Append(add.calls, "acpi_dev_free_resource_list"),
                           IF phys = 0 THEN <<"err_not_found">> ELSE <<>>,
                           IF phys = 0 THEN "-ENODEV" ELSE "0", "none")
           /\ last' = [op |-> "locate", resources |-> add.list,
                       phys |-> phys,
                       ret |-> IF phys = 0 THEN "-ENODEV" ELSE "0",
                       log |-> IF phys = 0 THEN <<"err_not_found">>
                               ELSE <<>>]
    /\ resListLive' = FALSE
    /\ UNCHANGED <<state, devres, pending, priv, mapped, base, hwmon, probes,
                   teardowns>>

\* devm_ioremap answers.
AddMap ==
    /\ pc = "ioremap"
    /\ \E mapOK \in BOOLEAN :
          /\ mapped' = mapOK
          /\ base' = IF mapOK THEN add.phys ELSE 0
          /\ devres' = IF mapOK THEN devm_ioremap(devres) ELSE devres
          /\ pc' = IF mapOK THEN "sanity" ELSE "failed"
          /\ add' = Frame(<<>>, add.phys, Append(add.calls, "devm_ioremap"),
                          <<>>, IF mapOK THEN "0" ELSE "-ENOMEM", "none")
          /\ last' = [op |-> "ioremap", ok |-> mapOK, phys |-> add.phys]
    /\ UNCHANGED <<state, pending, priv, hwmon, resListLive, probes,
                   teardowns>>

\* The sanity check: SYS_TOTAL is loaded; the warning, or the message with
\* three more loads.
AddSanity ==
    /\ pc = "sanity"
    /\ \E test \in Ioread32(mapped, TE_SYS_TOTAL), order \in ArgOrders :
          LET live == ~TelemetryInactive(test)
              log  == IF live THEN <<"info_live">> ELSE <<"warn_inactive">>
          IN  /\ add' = Frame(<<>>, add.phys, add.calls, log, "0", "none")
              /\ last' = [op |-> "sanity", test |-> test,
                          mapped |-> mapped, tested |-> SanityTests,
                          reads |-> IF live THEN <<TE_SYS_TOTAL>> \o order
                                    ELSE <<TE_SYS_TOTAL>>,
                          log |-> log]
    /\ pc' = "register"
    /\ UNCHANGED <<state, devres, pending, priv, mapped, base, hwmon,
                   resListLive, probes, teardowns>>

\* devm_hwmon_device_register_with_info answers; when it succeeds the hwmon
\* device is live although spbm_add has not returned.
AddRegister ==
    /\ pc = "register"
    /\ \E regRet \in {"0"} \cup RegErrors :
          LET ok == regRet \notin RegErrors
          IN  /\ hwmon' = ok
              /\ devres' = IF ok
                           THEN devm_hwmon_device_register_with_info(devres)
                           ELSE devres
              /\ pc' = IF ok THEN "registered" ELSE "failed"
              /\ add' = Frame(<<>>, add.phys,
                              Append(add.calls,
                                     "devm_hwmon_device_register_with_info"),
                              add.log, regRet, IF ok THEN "ok" ELSE regRet)
              /\ last' = [op |-> "register", ret |-> regRet]
    /\ UNCHANGED <<state, pending, priv, mapped, base, resListLive, probes,
                   teardowns>>

\* spbm_add logs the registration and returns 0.
AddReturn ==
    /\ pc = "registered"
    /\ state' = "Registered"
    /\ pc' = "idle"
    /\ add' = NoFrame
    /\ last' = [op |-> "probe", ret |-> "0", calls |-> add.calls,
                hwdev |-> add.hwdev,
                log |-> Append(add.log, "info_registered"),
                released |-> <<>>, held |-> TRUE]
    /\ UNCHANGED <<devres, pending, priv, mapped, base, hwmon, resListLive,
                   probes, teardowns>>

\* spbm_add has returned an error: the driver core releases the devres list
\* and the probe has failed.
ProbeFailed ==
    /\ pc = "failed"
    /\ LET released == ReleaseOrder(devres)
           gone(x)  == CountOf(released, x) > 0
       IN  /\ priv' = (priv /\ ~gone("priv"))
           /\ mapped' = (mapped /\ ~gone("ioremap"))
           /\ base' = IF mapped /\ ~gone("ioremap") THEN base ELSE 0
           /\ hwmon' = (hwmon /\ ~gone("hwmon"))
           /\ last' = [op |-> "probe", ret |-> add.ret, calls |-> add.calls,
                       hwdev |-> add.hwdev, log |-> add.log,
                       released |-> released,
                       held |-> /\ gone("priv") => priv
                                /\ gone("ioremap") => mapped
                                /\ gone("hwmon") => hwmon]
    /\ devres' = <<>>
    /\ state' = "Failed"
    /\ pc' = "idle"
    /\ add' = NoFrame
    /\ UNCHANGED <<pending, resListLive, probes, teardowns>>

\* The hwmon core asks whether an attribute of a channel is exposed: while
\* it registers the device, and while the device is registered.
Visible ==
    /\ hwmon \/ pc = "register"
    /\ last = Idle
    /\ \E type \in HwmonTypes :
       \E attr \in HwmonAttrs(type), ch \in ChRange \cup IntExtremes :
          last' = [op |-> "visible", type |-> type, attr |-> attr, ch |-> ch,
                   mode |-> spbm_visible(type, attr, ch)]
    /\ UNCHANGED <<state, pc, add, devres, pending, priv, mapped, base, hwmon,
                   resListLive, probes, teardowns>>

\* A consumer reads a value attribute through the live hwmon device.
Read ==
    /\ hwmon
    /\ last = Idle
    /\ \E type \in HwmonTypes :
       \E attr \in HwmonAttrs(type), ch \in ChRange \cup IntExtremes :
          LET off == ReadOffset(type, attr, ch)
          IN  \E raw \in (IF off = -1 THEN {Fault}
                          ELSE Ioread32(mapped, off)) :
                 last' = [op |-> "read", type |-> type, attr |-> attr,
                          ch |-> ch, mapped |-> mapped, pc |-> pc,
                          result |-> spbm_read(type, attr, ch, raw)]
    /\ UNCHANGED <<state, pc, add, devres, pending, priv, mapped, base, hwmon,
                   resListLive, probes, teardowns>>

\* The host tears the binding down: the driver's own remove work, then the
\* devres list, are queued for release.
Detach ==
    /\ state \in {"Registered", "Failed", "Unregistered"}
    /\ pending = <<>>
    /\ teardowns < MaxTeardowns
    /\ LET todo == RemoveCallback \o ReleaseOrder(devres)
       IN  /\ pending' = todo
           /\ state' = IF todo # <<>> THEN "Detaching"
                       ELSE IF state = "Registered" THEN "Unregistered"
                       ELSE state
           /\ last' = [op |-> "teardown", from |-> state, todo |-> todo]
    /\ devres' = <<>>
    /\ teardowns' = teardowns + 1
    /\ UNCHANGED <<pc, add, priv, mapped, base, hwmon, resListLive, probes>>

\* The running teardown performs its next release.
ReleaseStep ==
    /\ pending # <<>>
    /\ LET x == Head(pending)
       IN  /\ priv' = IF x = "priv" THEN FALSE ELSE priv
           /\ mapped' = IF x = "ioremap" THEN FALSE ELSE mapped
           /\ base' = IF x = "ioremap" THEN 0 ELSE base
           /\ hwmon' = IF x = "hwmon" THEN FALSE ELSE hwmon
           /\ last' = [op |-> "release", what |-> x,
                       live |-> \/ (x = "priv" /\ priv)
                                \/ (x = "ioremap" /\ mapped)
                                \/ (x = "hwmon" /\ hwmon)]
    /\ pending' = Tail(pending)
    /\ state' = IF Tail(pending) = <<>> THEN "Unregistered" ELSE state
    /\ UNCHANGED <<pc, add, devres, resListLive, probes, teardowns>>

\* The record of the latest step is dropped: a callback has returned, or
\* the step is no longer the latest thing that happened.
Return ==
    /\ last # Idle
    /\ last' = Idle
    /\ UNCHANGED <<state, pc, add, devres, pending, priv, mapped, base, hwmon,
                   resListLive, probes, teardowns>>

Next ==
    \/ Attach \/ AddGetResources \/ AddLocate \/ AddMap \/ AddSanity
    \/ AddRegister \/ AddReturn \/ ProbeFailed
    \/ Visible \/ Read \/ Detach \/ ReleaseStep \/ Return

Spec == Init /\ [][Next]_vars

-----------------------------------------------------------------------------
(* Properties *)

MemResources(list) == SelectSeq(list, LAMBDA r : r.type = "IORESOURCE_MEM")

\* x divided by k < 2^15, most significant limb first: <<quotient, remainder>>
RECURSIVE DivRem(_, _, _)
DivRem(x, k, rem) ==
    IF x = <<>> THEN <<(<<>>), rem>>
    ELSE LET n   == Len(x)
             cur == rem * LimbBase + x[n]
             low == DivRem(SubSeq(x, 1, n - 1), k, cur % k)
         IN  <<Append(low[1], cur \div k), low[2]>>

\* the sign bit of a two's complement value
IsNegative(x) == x[Len(x)] >= LimbBase \div 2

\* val is a non-negative long equal to raw * 1000
IsTimes1000(val, raw) ==
    /\ Len(val) = LongLimbs
    /\ \A k \in DOMAIN val : val[k] \in 0..(LimbBase - 1)
    /\ ~IsNegative(val)
    /\ DivRem(val, 1000, 0) = <<Extend(raw, LongLimbs), 0>>

ValueQuery(type, attr, ch) ==
    \/ type = "hwmon_power" /\ attr = "hwmon_power_input" /\ ch \in 0..22
    \/ type = "hwmon_energy" /\ attr = "hwmon_energy_input" /\ ch \in 0..4

InRegion(off) == off >= 0 /\ off + 4 <= 4096

\* C1: when probe has walked the resource list, it fails with -ENODEV
\* exactly when the list holds fewer than two memory resources, and
\* otherwise selects the base address of the second memory resource.
C1_Locator ==
    last.op = "locate" =>
        LET mems == MemResources(last.resources)
        IN  /\ (last.ret = "-ENODEV") <=> (Len(mems) < 2)
            /\ (pc = "failed") <=> (Len(mems) < 2)
            /\ Len(mems) >= 2 => last.phys = mems[2].start

\* C2: the value a successful power or energy read returns is the loaded
\* word times 1000, exactly, as a non-negative long.
C2_ExactScaling ==
    (last.op = "read" /\ last.result.ret = "0") =>
        /\ last.result.raw \in DeviceWords
        /\ IsTimes1000(last.result.val, last.result.raw)

C2_Witness ==
    /\ last.op = "read"
    /\ last.result.ret = "0"
    /\ last.result.raw = Word(65535, 65535)
    /\ last.type = "hwmon_energy"

\* C3: a value query with an index inside its table loads exactly once, at
\* the offset of that channel, and returns the conversion of the word loaded
\* (45000 at soc_pkg gives 45000000); any other query answers -EOPNOTSUPP
\* and loads nothing.
C3_Read ==
    last.op = "read" =>
        LET r == last.result
        IN  IF ValueQuery(last.type, last.attr, last.ch)
            THEN /\ r.ret = "0"
                 /\ r.reads =
                      <<IF last.type = "hwmon_power"
                        THEN pwr_chans[last.ch + 1].offset
                        ELSE nrg_chans[last.ch + 1].offset>>
                 /\ IsTimes1000(r.val, r.raw)
                 /\ r.raw = Word(0, 45000) => r.val = FromInt(45000000, 4)
            ELSE /\ r.ret = "-EOPNOTSUPP"
                 /\ r.reads = <<>>

C3_Witness ==
    /\ last.op = "read"
    /\ last.type = "hwmon_power"
    /\ last.ch = 1
    /\ last.result.reads = <<TE_SOC_PKG>>
    /\ last.result.raw = Word(0, 45000)
    /\ last.result.val = FromInt(45000000, 4)

\* C4: spbm_visible answers 0444 exactly for the value and label attributes
\* of power channels 0..22 and energy channels 0..4, and 0 otherwise; no
\* answer carries a write bit.
C4_Visible ==
    last.op = "visible" =>
        LET exposed ==
              \/ /\ last.type = "hwmon_power"
                 /\ last.attr \in {"hwmon_power_input", "hwmon_power_label"}
                 /\ last.ch \in 0..22
              \/ /\ last.type = "hwmon_energy"
                 /\ last.attr \in {"hwmon_energy_input", "hwmon_energy_label"}
                 /\ last.ch \in 0..4
        IN  /\ last.mode = IF exposed THEN 4 * 64 + 4 * 8 + 4 ELSE 0
            /\ (last.mode \div 128) % 2 = 0
            /\ (last.mode \div 16) % 2 = 0
            /\ (last.mode \div 2) % 2 = 0

C4_Witness ==
    /\ last.op = "visible"
    /\ last.type = "hwmon_energy"
    /\ last.attr = "hwmon_energy_label"
    /\ last.ch = 4
    /\ last.mode = 292

\* C5: once the region is mapped, whatever SYS_TOTAL holds the probe goes
\* on to the hwmon registration, and ends Registered with 0 when the
\* registration succeeds; it warns exactly when SYS_TOTAL is 0 or
\* 0xFFFFFFFF.
C5_LivenessAdvisory ==
    /\ last.op = "sanity" =>
          /\ last.test \in DeviceWords
          /\ pc = "register"
          /\ ENABLED AddRegister
          /\ (CountOf(last.log, "warn_inactive") > 0) <=>
                (last.test \in {Word(0, 0), Word(65535, 65535)})
    /\ (last.op = "register" /\ last.ret = "0") =>
          (pc = "registered" /\ hwmon /\ ENABLED AddReturn)
    /\ pc = "registered" => (hwmon /\ mapped /\ add.hwdev = "ok")
    /\ (last.op = "probe" /\ last.hwdev = "ok") =>
          (state = "Registered" /\ last.ret = "0")

C5_Witness ==
    /\ last.op = "probe"
    /\ state = "Registered"
    /\ hwmon
    /\ last.log = <<"warn_inactive", "info_registered">>

\* C6: a probe ends Registered (return 0) or Failed (an error), makes each
\* of its calls at most once, and when Failed leaves no mapping, no hwmon
\* device, no resource list, no private data and nothing on the devres
\* list.
C6_FailedHoldsNothing ==
    /\ last.op = "probe" =>
          /\ state \in {"Registered", "Failed"}
          /\ pc = "idle"
          /\ (state = "Registered") <=> (last.ret = "0")
          /\ \A c \in {"devm_kzalloc", "acpi_dev_get_resources",
                       "devm_ioremap",
                       "devm_hwmon_device_register_with_info"} :
                CountOf(last.calls, c) <= 1
    /\ \A i, j \in DOMAIN add.calls : add.calls[i] = add.calls[j] => i = j
    /\ pc = "failed" => add.ret # "0"
    /\ state = "Failed" =>
          /\ ~mapped
          /\ base = 0
          /\ ~hwmon
          /\ ~resListLive
          /\ ~priv
          /\ devres = <<>>

C6_Witness ==
    /\ last.op = "probe"
    /\ state = "Failed"
    /\ last.ret = "-EINVAL"
    /\ last.hwdev = "-EINVAL"
    /\ last.released = <<"ioremap", "priv">>

\* C7: every load goes through a bounds-checked read, which compares the
\* end of the word, offset + 4, with the size of the region and fails with
\* OutOfBounds instead of loading when it lies past it; so every load the
\* sanity check or a query issues has had that comparison made and lies
\* inside the 4096-byte region while it is mapped.
BoundsChecked(tested) ==
    \E i \in DOMAIN tested :
        tested[i].what = "offset + 4" /\ tested[i].limit = 4096

C7_Read32Checked ==
    /\ last.op = "read" =>
          \A i \in DOMAIN last.result.reads :
              /\ InRegion(last.result.reads[i])
              /\ last.mapped
              /\ BoundsChecked(last.result.tested)
    /\ last.op = "sanity" =>
          \A i \in DOMAIN last.reads :
              /\ InRegion(last.reads[i])
              /\ last.mapped
              /\ BoundsChecked(last.tested)

\* C8: a teardown from Registered releases the hwmon device, then the
\* mapping, then the private data; the hwmon device is never live without
\* the mapping, and no query loads from an unmapped region, before, during
\* or after a teardown or a probe.
C8_TeardownOrder ==
    /\ hwmon => mapped
    /\ (last.op = "teardown" /\ last.from = "Registered") =>
          last.todo = <<"hwmon", "ioremap", "priv">>
    /\ (last.op = "read" /\ last.result.reads # <<>>) =>
          (last.mapped /\ last.result.raw # Fault)

C8_Witness ==
    /\ state = "Detaching"
    /\ pending = <<"hwmon", "ioremap", "priv">>
    /\ last.op = "read"
    /\ last.result.reads # <<>>

\* C9: nothing is released that is not held at that moment, and a teardown
\* of a Failed or Unregistered binding releases nothing and leaves the
\* binding as it was.
C9_IdempotentRelease ==
    /\ last.op = "release" => last.live
    /\ last.op = "probe" => last.held
    /\ (last.op = "teardown" /\ last.from \in {"Failed", "Unregistered"}) =>
          /\ last.todo = <<>>
          /\ pending = <<>>
          /\ state = last.from
          /\ ~mapped /\ ~hwmon /\ ~priv

C9_Witness ==
    /\ last.op = "teardown"
    /\ last.from = "Unregistered"
    /\ teardowns = 2
    /\ probes = 1

\* the register layout of the interface description, in index order
LayoutPower == <<
    <<\H300, "sys_total">>, <<\H304, "soc_pkg">>, <<\H308, "cpu_gpu">>,
    <<\H30C, "cpu_p">>, <<\H310, "cpu_e">>, <<\H314, "vcore">>,
    <<\H318, "vddq">>, <<\H31C, "dc_input">>, <<\H324, "gpu_out">>,
    <<\H320, "gpc_out">>, <<\H32C, "gpu_in">>, <<\H328, "gpc_in">>,
    <<\H330, "sys_in">>, <<\H338, "prereg_in">>, <<\H334, "dla_in">>,
    <<\H33C, "dla_out">>, <<\H160, "pl1">>, <<\H164, "pl2">>,
    <<\H170, "syspl1">>, <<\H600, "budget_cpu">>, <<\H604, "budget_gpu">>,
    <<\H680, "budget_cpu_e">>, <<\H684, "budget_cpu_p">> >>

LayoutEnergy == <<
    <<\H344, "pkg">>, <<\H350, "cpu_e">>, <<\H35C, "cpu_p">>,
    <<\H368, "gpc">>, <<\H374, "gpm">> >>

Matches(tbl, layout) ==
    /\ Len(tbl) = Len(layout)
    /\ \A i \in DOMAIN tbl :
          tbl[i].offset = layout[i][1] /\ tbl[i].label = layout[i][2]

Distinct(tbl, field) ==
    \A i, j \in DOMAIN tbl : tbl[i][field] = tbl[j][field] => i = j

\* the two tables against the layout
RegistryWellFormed ==
    /\ Len(pwr_chans) = 23
    /\ Len(nrg_chans) = 5
    /\ Matches(pwr_chans, LayoutPower)
    /\ Matches(nrg_chans, LayoutEnergy)
    /\ Distinct(pwr_chans, "offset") /\ Distinct(pwr_chans, "label")
    /\ Distinct(nrg_chans, "offset") /\ Distinct(nrg_chans, "label")
    /\ \A i \in DOMAIN pwr_chans, j \in DOMAIN nrg_chans :
          pwr_chans[i].offset # nrg_chans[j].offset
    /\ \A o \in Offsets : InRegion(o)
    /\ Cardinality(Offsets) = 28

\* C10: while the hwmon device is registered, the power table it serves is
\* the 23 listed pairs and the energy table the 5 listed pairs, in index
\* order; no offset is in both tables or twice in one, labels are unique
\* within a table, every offset lies in the region.
C10_Registry == hwmon => RegistryWellFormed

C10_Witness ==
    /\ hwmon
    /\ last.op = "read"
    /\ last.ch = 4
    /\ last.type = "hwmon_energy"
    /\ last.result.reads = <<\H374>>

=============================================================================
